---- MODULE Spec2Model ----
(***************************************************************************)
(* Model of scripts/scrape_unisport.py: the text-to-schedule pipeline      *)
(* (extract_rows, parse_time_range, parse_dateinfo, daterange_weekly,      *)
(* build_events) and the run of main around it.                            *)
(*                                                                         *)
(* Text is a sequence of one-character strings, so that the regular        *)
(* expressions, normalize_space, strptime and isoformat are computed       *)
(* character by character.  A date object is its proleptic Gregorian       *)
(* ordinal (date.toordinal()); a time object is a record [h, m].  An       *)
(* Optional value is the empty tuple (None) or a one-element tuple.        *)
(***************************************************************************)
EXTENDS Integers, Sequences, FiniteSets, TLC

VARIABLES pc, html, rows, events, today, lookahead, events_file, meta_file, args, ret

vars == <<pc, html, rows, events, today, lookahead, events_file, meta_file, args, ret>>

----------------------------------------------------------------------------
(* Optional values and characters                                          *)

None == <<>>

Some(x) == <<x>>

\* the characters of the model in ascending code point order
Alphabet ==
  <<"\t", " ", ",", "-", ".", "/", "0", "1", "2", "3", "4", "5", "6", "7", "8", "9", ":",
    "A", "B", "C", "D", "E", "F", "G", "H", "I", "J", "K", "L", "M",
    "N", "O", "P", "Q", "R", "S", "T", "U", "V", "W", "X", "Y", "Z",
    "a", "b", "c", "d", "e", "f", "g", "h", "i", "j", "k", "l", "m",
    "n", "o", "p", "q", "r", "s", "t", "u", "v", "w", "x", "y", "z">>

Chars == {Alphabet[i] : i \in 1..Len(Alphabet)}

\* position of a character in the code point order
Ord == [c \in Chars |-> CHOOSE i \in 1..Len(Alphabet) : Alphabet[i] = c]

\* \s of the re module
IsSpace(c) == c \in {"\t", " "}

\* \d of the re module
IsDigit(c) == c \in {"0", "1", "2", "3", "4", "5", "6", "7", "8", "9"}

\* int() of one decimal digit
DigitVal(c) == Ord[c] - Ord["0"]

\* case folding of re.IGNORECASE
Lower(c) == IF Ord[c] >= Ord["A"] /\ Ord[c] <= Ord["Z"] THEN Alphabet[Ord[c] + 26] ELSE c

\* one decimal digit as a character
DigitChar(n) == Alphabet[Ord["0"] + n]

\* s[i..j] as Python's s[i-1:j]
Slice(s, i, j) == IF j < i THEN <<>> ELSE SubSeq(s, i, j)

\* str comparison: lexicographic by code point
RECURSIVE StrLess(_, _)
StrLess(a, b) ==
  IF b = <<>> THEN FALSE
  ELSE IF a = <<>> THEN TRUE
  ELSE IF Head(a) # Head(b) THEN Ord[Head(a)] < Ord[Head(b)]
  ELSE StrLess(Tail(a), Tail(b))

----------------------------------------------------------------------------
(* normalize_space                                                         *)

\* re.sub(r"\s+", " ", s): every maximal run of whitespace becomes one space
RECURSIVE CollapseSpace(_)
CollapseSpace(s) ==
  IF s = <<>> THEN <<>>
  ELSE IF IsSpace(Head(s))
       THEN IF Len(s) > 1 /\ IsSpace(s[2])
            THEN CollapseSpace(Tail(s))
            ELSE <<" ">> \o CollapseSpace(Tail(s))
       ELSE <<Head(s)>> \o CollapseSpace(Tail(s))

RECURSIVE LStrip(_)
LStrip(s) == IF s # <<>> /\ IsSpace(Head(s)) THEN LStrip(Tail(s)) ELSE s

RECURSIVE RStrip(_)
RStrip(s) == IF s # <<>> /\ IsSpace(s[Len(s)]) THEN RStrip(SubSeq(s, 1, Len(s) - 1)) ELSE s

\* str.strip()
Strip(s) == LStrip(RStrip(s))

normalize_space(s) == Strip(CollapseSpace(s))

----------------------------------------------------------------------------
(* Scanning helpers for the anchored regular expressions                   *)

\* position after a greedy \s* that starts at position i
RECURSIVE SkipSpace(_, _)
SkipSpace(s, i) == IF i <= Len(s) /\ IsSpace(s[i]) THEN SkipSpace(s, i + 1) ELSE i

\* number of digits of the run of \d that starts at position i
RECURSIVE DigitRun(_, _)
DigitRun(s, i) == IF i <= Len(s) /\ IsDigit(s[i]) THEN 1 + DigitRun(s, i + 1) ELSE 0

\* the literal lit stands at position i, compared case-insensitively
LitAtI(s, i, lit) ==
  /\ i + Len(lit) - 1 <= Len(s)
  /\ \A k \in 1..Len(lit) : Lower(s[i + k - 1]) = Lower(lit[k])

\* the literal lit stands at position i
LitAt(s, i, lit) ==
  /\ i + Len(lit) - 1 <= Len(s)
  /\ \A k \in 1..Len(lit) : s[i + k - 1] = lit[k]

\* int() of a string of decimal digits
RECURSIVE ToInt(_)
ToInt(s) == IF s = <<>> THEN 0 ELSE 10 * ToInt(SubSeq(s, 1, Len(s) - 1)) + DigitVal(s[Len(s)])

\* n as exactly w decimal digits, zero padded (%02d, %04d)
RECURSIVE Pad(_, _)
Pad(n, w) == IF w = 0 THEN <<>> ELSE Pad(n \div 10, w - 1) \o <<DigitChar(n % 10)>>

----------------------------------------------------------------------------
(* datetime.date and datetime.time of the standard library                 *)

IsLeap(y) == y % 4 = 0 /\ (y % 100 # 0 \/ y % 400 = 0)

DaysInMonth(y, m) ==
  IF m = 2 THEN (IF IsLeap(y) THEN 29 ELSE 28)
  ELSE IF m \in {4, 6, 9, 11} THEN 30 ELSE 31

\* days before January 1st of year y
DaysBeforeYear(y) == (y - 1) * 365 + (y - 1) \div 4 - (y - 1) \div 100 + (y - 1) \div 400

\* days of year y before the first of month m
RECURSIVE DaysBeforeMonth(_, _)
DaysBeforeMonth(y, m) == IF m = 1 THEN 0 ELSE DaysBeforeMonth(y, m - 1) + DaysInMonth(y, m - 1)

\* date(y, m, d).toordinal()
ymd2ord(y, m, d) == DaysBeforeYear(y) + DaysBeforeMonth(y, m) + d

\* date.fromordinal(n) as <<year, month, day>>
ord2ymd(n) ==
  LET n0 == n - 1
      n400 == n0 \div 146097
      r400 == n0 % 146097
      n100 == r400 \div 36524
      r100 == r400 % 36524
      n4 == r100 \div 1461
      r4 == r100 % 1461
      n1 == r4 \div 365
      r1 == r4 % 365
      year == n400 * 400 + 1 + n100 * 100 + n4 * 4 + n1
  IN IF n1 = 4 \/ n100 = 4 THEN <<year - 1, 12, 31>>
     ELSE LET month == CHOOSE m \in 1..12 :
                         /\ DaysBeforeMonth(year, m) <= r1
                         /\ r1 < DaysBeforeMonth(year, m) + DaysInMonth(year, m)
          IN <<year, month, r1 - DaysBeforeMonth(year, month) + 1>>

\* date.weekday(): Monday is 0
weekday(d) == (d + 6) % 7

\* date.isoformat(): YYYY-MM-DD
date_isoformat(d) ==
  LET t == ord2ymd(d) IN Pad(t[1], 4) \o <<"-">> \o Pad(t[2], 2) \o <<"-">> \o Pad(t[3], 2)

\* datetime.combine(day, t).isoformat(): YYYY-MM-DDTHH:MM:SS
datetime_isoformat(d, t) ==
  date_isoformat(d) \o <<"T">> \o Pad(t.h, 2) \o <<":">> \o Pad(t.m, 2) \o <<":", "0", "0">>

\* what a call returns: a value, or the exception it raises
Return(v) == [exc |-> "", val |-> v]

Raise(e) == [exc |-> e, val |-> <<>>]

\* time(h, m): ValueError unless 0 <= h <= 23 and 0 <= m <= 59
time(h, m) ==
  IF h \in 0..23 /\ m \in 0..59 THEN Return([h |-> h, m |-> m]) ELSE Raise("ValueError")

\* str(n) of a natural number
RECURSIVE Str(_)
Str(n) == IF n < 10 THEN <<DigitChar(n)>> ELSE Str(n \div 10) \o <<DigitChar(n % 10)>>

\* datetime.strptime(s, "%d.%m.%Y").date() for s that starts with two digits, a dot,
\* two digits and a dot (the callers' regular expressions see to that): %Y takes
\* exactly four digits, %d 01..31, %m 01..12, and date() rejects year 0 and a day
\* beyond the month's last
strptime_dmy(s) ==
  LET d == ToInt(Slice(s, 1, 2))
      m == ToInt(Slice(s, 4, 5))
      ytxt == Slice(s, 7, Len(s))
      y == ToInt(ytxt)
  IN IF /\ Len(ytxt) = 4
        /\ \A i \in 1..4 : IsDigit(ytxt[i])
        /\ d \in 1..31
        /\ m \in 1..12
        /\ y >= 1
        /\ d <= DaysInMonth(y, m)
     THEN Return(ymd2ord(y, m, d))
     ELSE Raise("ValueError")

----------------------------------------------------------------------------
(* parse_time_range                                                        *)

\* ALLDAY_RE.match(t): ^\s*ganzer\s+Tag\s*$, case-insensitive
ALLDAY_RE(t) ==
  LET p0 == SkipSpace(t, 1)
      p1 == p0 + 6
      p2 == SkipSpace(t, p1)
  IN /\ LitAtI(t, p0, <<"g", "a", "n", "z", "e", "r">>)
     /\ p2 > p1
     /\ LitAtI(t, p2, <<"T", "a", "g">>)
     /\ SkipSpace(t, p2 + 3) = Len(t) + 1

\* \d{1,2}:\d{2} at position p: the position after it, or 0 when it does not match
ClockAt(t, p) ==
  LET n == DigitRun(t, p)
      k == IF n >= 2 THEN 2 ELSE n
  IN IF /\ k >= 1
        /\ LitAt(t, p + k, <<":">>)
        /\ DigitRun(t, p + k + 1) >= 2
     THEN p + k + 3
     ELSE 0

\* TIME_RE.match(t): ^\s*(\d{1,2}:\d{2})\s*-\s*(\d{1,2}:\d{2})\s*Uhr\s*$,
\* case-insensitive; None, or the two groups
TIME_RE(t) ==
  LET p0 == SkipSpace(t, 1)
      p1 == ClockAt(t, p0)
      p2 == SkipSpace(t, p1)
      p3 == SkipSpace(t, p2 + 1)
      p4 == ClockAt(t, p3)
      p5 == SkipSpace(t, p4)
  IN IF /\ p1 # 0
        /\ LitAt(t, p2, <<"-">>)
        /\ p4 # 0
        /\ LitAtI(t, p5, <<"U", "h", "r">>)
        /\ SkipSpace(t, p5 + 3) = Len(t) + 1
     THEN Some(<<Slice(t, p0, p1 - 1), Slice(t, p3, p4 - 1)>>)
     ELSE None

\* map(int, s.split(":")) of a clock text H:MM or HH:MM
SplitClock(s) ==
  LET c == CHOOSE i \in 1..Len(s) : s[i] = ":"
  IN <<ToInt(Slice(s, 1, c - 1)), ToInt(Slice(s, c + 1, Len(s)))>>

\* return time(sh, sm), time(eh, em), False: the first constructor that raises
\* ends the call
TimeTuple(st, et) ==
  IF st.exc # "" THEN Raise(st.exc)
  ELSE IF et.exc # "" THEN Raise(et.exc)
  ELSE Return([start_t |-> Some(st.val), end_t |-> Some(et.val), all_day |-> FALSE])

\* sh, sm = ...; eh, em = ...
TimePair(s, e) == TimeTuple(time(s[1], s[2]), time(e[1], e[2]))

\* m = TIME_RE.match(t) and what follows it
TimeGroups(m) ==
  IF m = None THEN Return([start_t |-> None, end_t |-> None, all_day |-> FALSE])
  ELSE TimePair(SplitClock(m[1][1]), SplitClock(m[1][2]))

\* the returned tuple (start_t, end_t, all_day), or the ValueError of time()
parse_time_range(time_str) ==
  LET t == normalize_space(time_str) IN
  IF ALLDAY_RE(t) THEN Return([start_t |-> None, end_t |-> None, all_day |-> TRUE])
  ELSE TimeGroups(TIME_RE(t))

----------------------------------------------------------------------------
(* parse_dateinfo                                                          *)

\* \d{2}\.\d{2} at position p
DayMonthAt(s, p) ==
  /\ p + 4 <= Len(s)
  /\ IsDigit(s[p]) /\ IsDigit(s[p + 1]) /\ s[p + 2] = "." /\ IsDigit(s[p + 3]) /\ IsDigit(s[p + 4])

\* \d{2}\.\d{2}\.\d{4} at position p
DayMonthYearAt(s, p) ==
  /\ DayMonthAt(s, p)
  /\ p + 9 <= Len(s)
  /\ s[p + 5] = "."
  /\ \A k \in 6..9 : IsDigit(s[p + k])

\* DATE_SINGLE_RE.match(di): ^\s*(\d{2}\.\d{2}\.\d{4})\s*$; None, or the group
DATE_SINGLE_RE(di) ==
  LET p0 == SkipSpace(di, 1)
  IN IF DayMonthYearAt(di, p0) /\ SkipSpace(di, p0 + 10) = Len(di) + 1
     THEN Some(Slice(di, p0, p0 + 9))
     ELSE None

\* DATE_RANGE_RE.match(di): ^\s*(\d{2}\.\d{2})\.\s*-\s*(\d{2}\.\d{2}\.\d{4})\s*$;
\* None, or the two groups
DATE_RANGE_RE(di) ==
  LET p0 == SkipSpace(di, 1)
      p1 == SkipSpace(di, p0 + 6)
      p2 == SkipSpace(di, p1 + 1)
  IN IF /\ DayMonthAt(di, p0)
        /\ LitAt(di, p0 + 5, <<".">>)
        /\ LitAt(di, p1, <<"-">>)
        /\ DayMonthYearAt(di, p2)
        /\ SkipSpace(di, p2 + 10) = Len(di) + 1
     THEN Some(<<Slice(di, p0, p0 + 4), Slice(di, p2, p2 + 9)>>)
     ELSE None

\* PHASE_RE.match(di): ^\s*Phase\b, case-insensitive
PHASE_RE(di) ==
  LET p0 == SkipSpace(di, 1)
  IN /\ LitAtI(di, p0, <<"P", "h", "a", "s", "e">>)
     /\ \/ p0 + 5 = Len(di) + 1
        \/ ~(Lower(di[p0 + 5]) \in {Alphabet[i] : i \in Ord["a"]..Ord["z"]} \/ IsDigit(di[p0 + 5]))

\* the single branch: d = strptime(...).date(); return ("single", d, None)
SingleDate(d) ==
  IF d.exc # "" THEN Raise(d.exc)
  ELSE Return([kind |-> "single", d1 |-> Some(d.val), d2 |-> None])

\* the range branch behind both strptime calls: return ("range", start_d, end_d)
RangeDates(start_d, end_d) ==
  IF start_d.exc # "" THEN Raise(start_d.exc)
  ELSE Return([kind |-> "range", d1 |-> Some(start_d.val), d2 |-> Some(end_d)])

\* the range branch: the end is parsed first, the start takes the end's year,
\* written as str(end_d.year)
RangeEnd(start_dm, end_d) ==
  IF end_d.exc # "" THEN Raise(end_d.exc)
  ELSE RangeDates(strptime_dmy(start_dm \o <<".">> \o Str(ord2ymd(end_d.val)[1])), end_d.val)

\* A stricter parse_dateinfo, which the code is not: a text of none of the three
\* forms is an error.  C5 tells the code from it
DateGroups_Strict(di, m1, m2) ==
  IF m1 # None THEN SingleDate(strptime_dmy(m1[1]))
  ELSE IF m2 # None THEN RangeEnd(m2[1][1], strptime_dmy(m2[1][2]))
  ELSE IF PHASE_RE(di) THEN Return([kind |-> "phase", d1 |-> None, d2 |-> None])
  ELSE Raise("ValueError")

\* the branches of parse_dateinfo on the two match objects
DateGroups(di, m1, m2) ==
  IF m1 # None THEN SingleDate(strptime_dmy(m1[1]))
  ELSE IF m2 # None THEN RangeEnd(m2[1][1], strptime_dmy(m2[1][2]))
  ELSE IF PHASE_RE(di) THEN Return([kind |-> "phase", d1 |-> None, d2 |-> None])
  ELSE Return([kind |-> "phase", d1 |-> None, d2 |-> None])

\* the returned tuple (kind, d1, d2), or the ValueError of strptime
parse_dateinfo(dateinfo) ==
  LET di == normalize_space(dateinfo) IN DateGroups(di, DATE_SINGLE_RE(di), DATE_RANGE_RE(di))

----------------------------------------------------------------------------
(* Occurrence expansion: next_date_for_weekday, daterange_weekly            *)

DOW_MAP ==
  { <<<<"M", "o">>, 0>>, <<<<"D", "i">>, 1>>, <<<<"M", "i">>, 2>>, <<<<"D", "o">>, 3>>,
    <<<<"F", "r">>, 4>>, <<<<"S", "a">>, 5>>, <<<<"S", "o">>, 6>> }

\* DOW_MAP.get(dow)
DowGet(dow) ==
  IF \E e \in DOW_MAP : e[1] = dow
  THEN Some((CHOOSE e \in DOW_MAP : e[1] = dow)[2])
  ELSE None

\* The step taken backwards, which the code does not: the difference of the two
\* weekdays with its sign turned.  C3 tells the code from it
next_date_for_weekday_Backwards(from_date, weekday_idx) ==
  from_date + ((weekday(from_date) - weekday_idx) % 7)

next_date_for_weekday(from_date, weekday_idx) ==
  from_date + ((weekday_idx - weekday(from_date)) % 7)

\* while d <= end: out.append(d); d += timedelta(days=7)
RECURSIVE WeeklyLoop(_, _)
WeeklyLoop(d, end) == IF d <= end THEN <<d>> \o WeeklyLoop(d + 7, end) ELSE <<>>

daterange_weekly(start, end, weekday_idx) ==
  LET first0 == next_date_for_weekday(start, weekday_idx)
      first == IF first0 < start THEN first0 + 7 ELSE first0
  IN WeeklyLoop(first, end)

\* A window that ends the day before the horizon, which the code's does not: the
\* loop on day < horizon.  C4 tells the code from it
PhaseDays_BeforeHorizon(td, la, weekday_idx) ==
  LET horizon == td + la
      first == next_date_for_weekday(td, weekday_idx)
  IN WeeklyLoop(first, horizon - 1)

\* the phase branch of build_events: from the first such weekday on or after today,
\* every 7 days while day <= today + PHASE_LOOKAHEAD_DAYS
PhaseDays(td, la, weekday_idx) ==
  LET horizon == td + la
      first == next_date_for_weekday(td, weekday_idx)
  IN WeeklyLoop(first, horizon)

----------------------------------------------------------------------------
(* build_events                                                            *)

SEARCH_URL == "https://www.zssw.unibe.ch/usp/zms/search.php"

DEFAULT_TIMEZONE == "Europe/Zurich"

\* the dict base of one row
ExtendedProps(r) ==
  [dow |-> r.dow, time |-> r.time_str, dateinfo |-> r.dateinfo, location |-> r.location,
   notes |-> r.rest, source |-> SEARCH_URL, tz |-> DEFAULT_TIMEZONE]

\* add_event(day): the events it appends, none or one
add_event(r, tr, day) ==
  IF tr.all_day
  THEN << [title |-> r.title, url |-> r.href, extendedProps |-> ExtendedProps(r),
           start |-> date_isoformat(day), allDay |-> TRUE] >>
  ELSE IF tr.start_t = None \/ tr.end_t = None
  THEN <<>>
  ELSE << [title |-> r.title, url |-> r.href, extendedProps |-> ExtendedProps(r),
           start |-> datetime_isoformat(day, tr.start_t[1]),
           end |-> datetime_isoformat(day, tr.end_t[1]),
           allDay |-> FALSE] >>

RECURSIVE AddEvents(_, _, _)
AddEvents(r, tr, days) ==
  IF days = <<>> THEN <<>> ELSE add_event(r, tr, Head(days)) \o AddEvents(r, tr, Tail(days))

\* A Single expanded like a Range of one day, which the code does not do: the date
\* is kept only when it falls on the weekday of the row.  C10 tells the code from it
RowDays_SingleOnWeekday(di, weekday_idx, td, la) ==
  IF di.kind = "single" /\ di.d1 # None
  THEN daterange_weekly(di.d1[1], di.d1[1], weekday_idx)
  ELSE IF di.kind = "range" /\ di.d1 # None /\ di.d2 # None
  THEN daterange_weekly(di.d1[1], di.d2[1], weekday_idx)
  ELSE PhaseDays(td, la, weekday_idx)

\* the days add_event is called with, in order: the if / elif / else on kind
RowDays(di, weekday_idx, td, la) ==
  IF di.kind = "single" /\ di.d1 # None
  THEN <<di.d1[1]>>
  ELSE IF di.kind = "range" /\ di.d1 # None /\ di.d2 # None
  THEN daterange_weekly(di.d1[1], di.d2[1], weekday_idx)
  ELSE PhaseDays(td, la, weekday_idx)

\* one iteration behind the two parser calls: parse_time_range is called first, so
\* its exception is the one that leaves
RowParsed(r, weekday_idx, tr, di, td, la) ==
  IF tr.exc # "" THEN Raise(tr.exc)
  ELSE IF di.exc # "" THEN Raise(di.exc)
  ELSE Return(AddEvents(r, tr.val, RowDays(di.val, weekday_idx, td, la)))

\* one iteration of "for r in rows": the events appended, or the exception raised
RowEvents(r, td, la) ==
  LET weekday_idx == DowGet(r.dow) IN
  IF weekday_idx = None THEN Return(<<>>)
  ELSE RowParsed(r, weekday_idx[1], parse_time_range(r.time_str), parse_dateinfo(r.dateinfo),
                 td, la)

\* an iteration followed by the later ones: the first exception ends the loop
Chain(h, t) ==
  IF h.exc # "" THEN Raise(h.exc)
  ELSE IF t.exc # "" THEN Raise(t.exc)
  ELSE Return(h.val \o t.val)

\* the loop over the rows: the unsorted events, or the first exception raised
RECURSIVE RowsLoop(_, _, _)
RowsLoop(rs, td, la) ==
  IF rs = <<>> THEN Return(<<>>)
  ELSE Chain(RowEvents(Head(rs), td, la), RowsLoop(Tail(rs), td, la))

\* sort_key(a) < sort_key(b): tuples (start, title) of strings
sort_key_less(a, b) ==
  \/ StrLess(a.start, b.start)
  \/ a.start = b.start /\ StrLess(a.title, b.title)

\* e goes behind every event whose key is not greater: the sort is stable
RECURSIVE InsertSorted(_, _)
InsertSorted(e, s) ==
  IF s = <<>> THEN <<e>>
  ELSE IF sort_key_less(e, Head(s)) THEN <<e>> \o s
  ELSE <<Head(s)>> \o InsertSorted(e, Tail(s))

\* events.sort(key=sort_key)
RECURSIVE SortEvents(_)
SortEvents(evs) ==
  IF evs = <<>> THEN <<>>
  ELSE InsertSorted(evs[Len(evs)], SortEvents(SubSeq(evs, 1, Len(evs) - 1)))

\* the sort behind the loop, which an exception never reaches
Sorted(r) == IF r.exc # "" THEN Raise(r.exc) ELSE Return(SortEvents(r.val))

\* build_events(rows) evaluated on the day td with PHASE_LOOKAHEAD_DAYS = la:
\* the sorted events, or the exception that leaves it
build_events(rs, td, la) == Sorted(RowsLoop(rs, td, la))

----------------------------------------------------------------------------
(* extract_rows                                                            *)

\* the alternatives of (?P<dow>Mo|Di|Mi|Do|Fr|Sa|So)
LINE_DOWS ==
  {<<"M", "o">>, <<"D", "i">>, <<"M", "i">>, <<"D", "o">>, <<"F", "r">>, <<"S", "a">>, <<"S", "o">>}

\* ,\s*(?P<location>.+?)(?:,\s*(?P<rest>.*))?$ with the comma at p - 1: the greedy
\* \s* gives back whitespace only when nothing is left for the location; the lazy
\* location ends before the first comma that follows its first character, or at the
\* end of the line.  None, or the groups <<location, rest>> (rest None when absent)
LocationAt(s, p) ==
  LET n == Len(s)
      a0 == SkipSpace(s, p)
      a == IF a0 <= n THEN a0 ELSE a0 - 1
  IN IF a < p \/ a > n THEN None
     ELSE LET e == CHOOSE x \in a..n :
                     /\ x = n \/ s[x + 1] = ","
                     /\ \A y \in a..(x - 1) : s[y + 1] # ","
          IN IF e = n THEN Some(<<Slice(s, a, e), None>>)
             ELSE Some(<<Slice(s, a, e), Some(Slice(s, SkipSpace(s, e + 2), n))>>)

\* ,\s*(?P<f>.+?), with the first comma at p - 1, followed by the later fields:
\* stage 1 is the time field, stage 2 the date field, stage 3 the location.  The
\* greedy \s* is tried longest first, the lazy field shortest first.  None, or the
\* groups from this field on
RECURSIVE FieldsAt(_, _, _)
FieldsAt(s, stage, p) ==
  IF stage = 3 THEN LocationAt(s, p)
  ELSE LET n == Len(s)
           wmax == SkipSpace(s, p) - p
           Ends(a) == {e \in a..(n - 1) : s[e + 1] = "," /\ FieldsAt(s, stage + 1, e + 2) # None}
           W == {w \in 0..wmax : Ends(p + w) # {}}
       IN IF W = {} THEN None
          ELSE LET w == CHOOSE x \in W : \A y \in W : y <= x
                   e == CHOOSE x \in Ends(p + w) : \A y \in Ends(p + w) : x <= y
               IN Some(<<Slice(s, p + w, e)>> \o FieldsAt(s, stage + 1, e + 2)[1])

\* one more group in front of the groups f of a match, None when f is no match
Prepend(g, f) == IF f = None THEN None ELSE Some(<<g>> \o f[1])

\* the rest of LINE_RE behind a title that ends at position i: None, or the groups
\* <<dow, time, dateinfo, location, rest>>
AfterTitle(s, i) ==
  LET q == SkipSpace(s, i + 2) IN
  IF /\ LitAt(s, i + 1, <<",">>)
     /\ q + 2 <= Len(s)
     /\ Slice(s, q, q + 1) \in LINE_DOWS
     /\ s[q + 2] = ","
  THEN Prepend(Slice(s, q, q + 1), FieldsAt(s, 1, q + 3))
  ELSE None

\* the smallest of a non-empty set of positions
Min(I) == CHOOSE x \in I : \A y \in I : x <= y

\* the match whose title ends at the first of the positions I where the rest matches
ShortestTitle(s, I) ==
  IF I = {} THEN None ELSE Prepend(Slice(s, 1, Min(I)), AfterTitle(s, Min(I)))

\* LINE_RE.match(s): the lazy title is the shortest that lets the rest match.  None,
\* or the groups <<title, dow, time, dateinfo, location, rest>>
LINE_RE(s) == ShortestTitle(s, {i \in 1..Len(s) : AfterTitle(s, i) # None})

\* str.count(",")
RECURSIVE CountCommas(_)
CountCommas(s) ==
  IF s = <<>> THEN 0 ELSE (IF Head(s) = "," THEN 1 ELSE 0) + CountCommas(Tail(s))

BASE_URL ==
  <<"h", "t", "t", "p", "s", ":", "/", "/", "w", "w", "w", ".", "z", "s", "s", "w", ".",
    "u", "n", "i", "b", "e", ".", "c", "h">>

\* href = a.get("href"); a site-relative one is made absolute
AnchorHref(a) ==
  IF a.href # None /\ a.href[1] # <<>> /\ a.href[1][1] = "/"
  THEN Some(BASE_URL \o a.href[1])
  ELSE a.href

\* rows.append(RawRow(...)) for the match m, nothing when the line did not match
MatchRows(a, m) ==
  IF m = None THEN <<>>
  ELSE << [title |-> Strip(m[1][1]),
           href |-> AnchorHref(a),
           dow |-> Strip(m[1][2]),
           time_str |-> Strip(m[1][3]),
           dateinfo |-> Strip(m[1][4]),
           location |-> Strip(m[1][5]),
           rest |-> Strip(IF m[1][6] = None THEN <<>> ELSE m[1][6][1])] >>

\* the comma count and the match on the normalised text of the parent
LineRows(a, line_text) ==
  IF CountCommas(line_text) < 3 THEN <<>> ELSE MatchRows(a, LINE_RE(line_text))

\* the body of "for a in soup.find_all('a')": the rows appended, none or one.  An
\* anchor is [text: a.get_text(" ", strip=True), parent: the same of a.parent or
\* None, href: a.get("href")]
AnchorRows(a) ==
  IF normalize_space(a.text) = <<>> THEN <<>>
  ELSE IF a.parent = None THEN <<>>
  ELSE LineRows(a, normalize_space(a.parent[1]))

RECURSIVE AllAnchorRows(_)
AllAnchorRows(h) == IF h = <<>> THEN <<>> ELSE AnchorRows(Head(h)) \o AllAnchorRows(Tail(h))

\* A key of the six text fields alone, which the code's is not: rows that differ in
\* href only would be one.  C7 tells the code from it
RowKey_TextOnly(r) == <<r.title, r.dow, r.time_str, r.dateinfo, r.location, r.rest>>

\* the key of the deduplication
RowKey(r) == <<r.title, r.dow, r.time_str, r.dateinfo, r.location, r.rest, r.href>>

\* "Deduplicate identical lines": a row is kept when no earlier row has its key
RECURSIVE Dedup(_, _)
Dedup(rs, seen) ==
  IF rs = <<>> THEN <<>>
  ELSE IF RowKey(Head(rs)) \in seen THEN Dedup(Tail(rs), seen)
  ELSE <<Head(rs)>> \o Dedup(Tail(rs), seen \cup {RowKey(Head(rs))})

\* extract_rows(html) for the anchors h of the parsed page, in document order
extract_rows(h) == Dedup(AllAnchorRows(h), {})

----------------------------------------------------------------------------
(* The inputs of the model: time texts, date texts, rows, page anchors      *)

\* "18:15-19:45 Uhr"
TIME_EVENING == <<"1", "8", ":", "1", "5", "-", "1", "9", ":", "4", "5", " ", "U", "h", "r">>

\* " 8:15 - 9:45  UHR"
TIME_SPACED ==
  <<" ", "8", ":", "1", "5", " ", "-", " ", "9", ":", "4", "5", " ", " ", "U", "H", "R">>

\* "19:45-18:15 Uhr"
TIME_BACKWARD == <<"1", "9", ":", "4", "5", "-", "1", "8", ":", "1", "5", " ", "U", "h", "r">>

\* "10:00-10:00 Uhr"
TIME_EMPTY == <<"1", "0", ":", "0", "0", "-", "1", "0", ":", "0", "0", " ", "U", "h", "r">>

\* "ganzer Tag"
TIME_ALLDAY == <<"g", "a", "n", "z", "e", "r", " ", "T", "a", "g">>

\* "GANZER \tTAG"
TIME_ALLDAY_UPPER == <<"G", "A", "N", "Z", "E", "R", " ", "\t", "T", "A", "G">>

\* "nach Absprache"
TIME_UNKNOWN == <<"n", "a", "c", "h", " ", "A", "b", "s", "p", "r", "a", "c", "h", "e">>

\* "25:00-26:00 Uhr"
TIME_HOUR25 == <<"2", "5", ":", "0", "0", "-", "2", "6", ":", "0", "0", " ", "U", "h", "r">>

\* "10:60-11:00 Uhr"
TIME_MINUTE60 == <<"1", "0", ":", "6", "0", "-", "1", "1", ":", "0", "0", " ", "U", "h", "r">>

\* "05.01.2026"
DATE_SINGLE == <<"0", "5", ".", "0", "1", ".", "2", "0", "2", "6">>

\* "29.02.2028"
DATE_SINGLE_LEAP == <<"2", "9", ".", "0", "2", ".", "2", "0", "2", "8">>

\* "07.01.-21.01.2026"
DATE_RANGE ==
  <<"0", "7", ".", "0", "1", ".", "-", "2", "1", ".", "0", "1", ".", "2", "0", "2", "6">>

\* "05.01. - 02.02.2026"
DATE_RANGE_SPACED ==
  <<"0", "5", ".", "0", "1", ".", " ", "-", " ", "0", "2", ".", "0", "2", ".", "2", "0", "2",
    "6">>

\* "21.01.-07.01.2026"
DATE_RANGE_EMPTY ==
  <<"2", "1", ".", "0", "1", ".", "-", "0", "7", ".", "0", "1", ".", "2", "0", "2", "6">>

\* "Phase 1"
DATE_PHASE == <<"P", "h", "a", "s", "e", " ", "1">>

\* "phase"
DATE_PHASE_LOWER == <<"p", "h", "a", "s", "e">>

\* "ab Januar"
DATE_UNKNOWN == <<"a", "b", " ", "J", "a", "n", "u", "a", "r">>

\* "05.01.26"
DATE_SHORT_YEAR == <<"0", "5", ".", "0", "1", ".", "2", "6">>

\* "31.02.2026"
DATE_DAY31FEB == <<"3", "1", ".", "0", "2", ".", "2", "0", "2", "6">>

\* "05.13.2026"
DATE_MONTH13 == <<"0", "5", ".", "1", "3", ".", "2", "0", "2", "6">>

\* "29.02.-21.03.2026"
DATE_RANGE_BADSTART ==
  <<"2", "9", ".", "0", "2", ".", "-", "2", "1", ".", "0", "3", ".", "2", "0", "2", "6">>

\* "%02d.%02d.%04d" % (d, m, y)
FormatDMY(d, m, y) == Pad(d, 2) \o <<".">> \o Pad(m, 2) \o <<".">> \o Pad(y, 4)

\* date texts of the shape DD.MM.YYYY, valid calendar dates and others
DMYGrid == {<<d, m, y>> : d \in {0, 5, 29, 31}, m \in {1, 2, 13}, y \in {2026, 2028}}

TimeTexts ==
  {TIME_EVENING, TIME_SPACED, TIME_BACKWARD, TIME_EMPTY, TIME_ALLDAY, TIME_ALLDAY_UPPER,
   TIME_UNKNOWN, TIME_HOUR25, TIME_MINUTE60}

DateTexts ==
  {DATE_SINGLE, DATE_SINGLE_LEAP, DATE_RANGE, DATE_RANGE_SPACED, DATE_RANGE_EMPTY, DATE_PHASE,
   DATE_PHASE_LOWER, DATE_UNKNOWN, DATE_SHORT_YEAR, DATE_DAY31FEB, DATE_MONTH13,
   DATE_RANGE_BADSTART}

\* weekday codes: three of DOW_MAP and one that is not
DowTexts == {<<"M", "o">>, <<"M", "i">>, <<"S", "o">>, <<"X", "x">>}

RawRow(title, href, dow, time_str, dateinfo) ==
  [title |-> title, href |-> href, dow |-> dow, time_str |-> time_str, dateinfo |-> dateinfo,
   location |-> <<"H">>, rest |-> <<>>]

\* every weekday code with every time text and every date text
SingleRows ==
  {RawRow(<<"A">>, None, dow, t, d) : dow \in DowTexts, t \in TimeTexts, d \in DateTexts}
  \cup {RawRow(<<"A">>, None, <<"M", "i">>, t, FormatDMY(g[1], g[2], g[3])) :
          t \in {TIME_EVENING, TIME_ALLDAY, TIME_UNKNOWN}, g \in DMYGrid}

\* the rows that lists of several rows are made of
CoreRows ==
  { RawRow(<<"A">>, None, <<"M", "o">>, TIME_EVENING, DATE_PHASE),
    RawRow(<<"A">>, Some(<<"/", "x">>), <<"M", "o">>, TIME_EVENING, DATE_PHASE),
    RawRow(<<"B">>, None, <<"M", "i">>, TIME_ALLDAY, DATE_RANGE),
    RawRow(<<"A">>, None, <<"M", "i">>, TIME_EVENING, DATE_SINGLE),
    RawRow(<<"B">>, None, <<"M", "o">>, TIME_UNKNOWN, DATE_PHASE),
    RawRow(<<"B">>, None, <<"M", "i">>, TIME_UNKNOWN, DATE_RANGE),
    RawRow(<<"A">>, None, <<"X", "x">>, TIME_HOUR25, DATE_DAY31FEB),
    RawRow(<<"B">>, None, <<"M", "o">>, TIME_BACKWARD, DATE_UNKNOWN),
    RawRow(<<"A">>, None, <<"M", "o">>, TIME_HOUR25, DATE_PHASE),
    RawRow(<<"B">>, None, <<"S", "o">>, TIME_EVENING, DATE_DAY31FEB) }

\* longest list of rows, beyond the single rows
MaxRows == 2

RECURSIVE SeqsUpTo(_, _)
SeqsUpTo(S, n) ==
  IF n = 0 THEN {<<>>}
  ELSE LET shorter == SeqsUpTo(S, n - 1)
       IN shorter \cup {Append(q, x) : q \in {t \in shorter : Len(t) = n - 1}, x \in S}

RowLists == {<<r>> : r \in SingleRows} \cup SeqsUpTo(CoreRows, MaxRows)

\* the evaluation days: Monday 2026-01-05 and the TodaySpan days after it
FirstToday == ymd2ord(2026, 1, 5)

TodaySpan == 6

Todays == FirstToday..(FirstToday + TodaySpan)

\* int(os.environ.get("PHASE_LOOKAHEAD_DAYS", "28")): the default
PHASE_LOOKAHEAD_DEFAULT == 28

\* the configured lookahead: the default, or a value from the environment
Lookaheads == {0, 6, PHASE_LOOKAHEAD_DEFAULT}

\* "Y, Mo, 18:15-19:45 Uhr, Phase 1, H"
LINE_PLAIN ==
  <<"Y", ",", " ", "M", "o", ",", " ", "1", "8", ":", "1", "5", "-", "1", "9", ":", "4", "5",
    " ", "U", "h", "r", ",", " ", "P", "h", "a", "s", "e", " ", "1", ",", " ", "H">>

\* " Y,  Mo,\t18:15-19:45 \t Uhr, Phase  1, H ": LINE_PLAIN with other whitespace
LINE_SPACED ==
  <<" ", "Y", ",", " ", " ", "M", "o", ",", "\t", "1", "8", ":", "1", "5", "-", "1", "9", ":",
    "4", "5", " ", "\t", " ", "U", "h", "r", ",", " ", "P", "h", "a", "s", "e", " ", " ", "1",
    ",", " ", "H", " ">>

\* "Y ,Mo,18:15-19:45 Uhr,Phase 1 ,H": LINE_PLAIN with the blanks on the other side of the commas
LINE_LOOSE ==
  <<"Y", " ", ",", "M", "o", ",", "1", "8", ":", "1", "5", "-", "1", "9", ":", "4", "5", " ",
    "U", "h", "r", ",", "P", "h", "a", "s", "e", " ", "1", " ", ",", "H">>

\* "B, Mi, ganzer Tag, 07.01.-21.01.2026, H, r, s"
LINE_RANGE ==
  <<"B", ",", " ", "M", "i", ",", " ", "g", "a", "n", "z", "e", "r", " ", "T", "a", "g", ",",
    " ", "0", "7", ".", "0", "1", ".", "-", "2", "1", ".", "0", "1", ".", "2", "0", "2", "6",
    ",", " ", "H", ",", " ", "r", ",", " ", "s">>

\* "B, Fr, 9:00-10:00 Uhr, 31.02.2026, H"
LINE_BAD_DATE ==
  <<"B", ",", " ", "F", "r", ",", " ", "9", ":", "0", "0", "-", "1", "0", ":", "0", "0", " ",
    "U", "h", "r", ",", " ", "3", "1", ".", "0", "2", ".", "2", "0", "2", "6", ",", " ", "H">>

\* "Y, Z, Do, x, 05.01.2026, H"
LINE_COMMA_TITLE ==
  <<"Y", ",", " ", "Z", ",", " ", "D", "o", ",", " ", "x", ",", " ", "0", "5", ".", "0", "1",
    ".", "2", "0", "2", "6", ",", " ", "H">>

\* "Badminton"
LINE_HEADING == <<"B", "a", "d", "m", "i", "n", "t", "o", "n">>

\* "Y, Xx, 18:15-19:45 Uhr, Phase 1, H"
LINE_NO_DOW ==
  <<"Y", ",", " ", "X", "x", ",", " ", "1", "8", ":", "1", "5", "-", "1", "9", ":", "4", "5",
    " ", "U", "h", "r", ",", " ", "P", "h", "a", "s", "e", " ", "1", ",", " ", "H">>

\* "/x"
HREF_REL == <<"/", "x">>

\* "https://www.zssw.unibe.ch/x"
HREF_ABS ==
  <<"h", "t", "t", "p", "s", ":", "/", "/", "w", "w", "w", ".", "z", "s", "s", "w", ".", "u",
    "n", "i", "b", "e", ".", "c", "h", "/", "x">>

\* "/y"
HREF_OTHER == <<"/", "y">>

Anchor(text, parent, href) == [text |-> text, parent |-> parent, href |-> href]

\* the anchors pages are made of: listings, repeated listings, headings
AnchorPool ==
  { Anchor(<<"Y">>, Some(LINE_PLAIN), Some(HREF_REL)),
    Anchor(<<"Y">>, Some(LINE_SPACED), Some(HREF_REL)),
    Anchor(<<"Y">>, Some(LINE_LOOSE), Some(HREF_REL)),
    Anchor(<<"Y">>, Some(LINE_PLAIN), Some(HREF_ABS)),
    Anchor(<<"Y">>, Some(LINE_PLAIN), Some(HREF_OTHER)),
    Anchor(<<"Y">>, Some(LINE_PLAIN), None),
    Anchor(<<"Y">>, Some(LINE_PLAIN), Some(<<>>)),
    Anchor(<<" ", "\t">>, Some(LINE_PLAIN), Some(HREF_REL)),
    Anchor(<<"Y">>, None, Some(HREF_REL)),
    Anchor(<<"B">>, Some(LINE_RANGE), Some(HREF_REL)),
    Anchor(<<"B">>, Some(LINE_BAD_DATE), None),
    Anchor(<<"Z">>, Some(LINE_COMMA_TITLE), Some(HREF_OTHER)),
    Anchor(LINE_HEADING, Some(LINE_HEADING), Some(HREF_REL)),
    Anchor(<<"Y">>, Some(LINE_NO_DOW), Some(HREF_REL)) }

\* most anchors on a page
MaxAnchors == 2

Pages == SeqsUpTo(AnchorPool, MaxAnchors)

\* the first day of the window daterange_weekly is called on: Wednesday 2026-02-18
FirstDay == ymd2ord(2026, 2, 18)

\* length of that window in days
DaySpan == 16

----------------------------------------------------------------------------
(* The run of main                                                         *)

\* an output document before the run: not there, or left by an earlier run
Absent == [state |-> "absent", data |-> <<>>]

Previous == [state |-> "previous", data |-> <<>>]

Written(d) == [state |-> "written", data |-> d]

\* main is entered: nothing fetched yet, the documents as an earlier run left them
\* (events.json is written before meta.json, so meta.json is never there alone)
Init ==
  /\ pc = "start"
  /\ html = None
  /\ rows = <<>>
  /\ events = <<>>
  /\ today = FirstToday
  /\ lookahead = PHASE_LOOKAHEAD_DEFAULT
  /\ events_file \in {Absent, Previous}
  /\ meta_file \in {Absent, Previous}
  /\ meta_file = Previous => events_file = Previous
  /\ args = <<>>
  /\ ret = <<>>

\* fetch_html returns the page
FetchOk ==
  /\ pc = "start"
  /\ \E h \in Pages : html' = h
  /\ pc' = "fetched"
  /\ UNCHANGED <<rows, events, today, lookahead, events_file, meta_file, args, ret>>

\* A main that opens events.json before it fetches, which the code does not: the
\* failed fetch leaves an empty document behind.  C8 tells the code from it
FetchFail_OutputOpened ==
  /\ pc = "start"
  /\ pc' = "fetch_failed"
  /\ events_file' = Written(<<>>)
  /\ UNCHANGED <<html, rows, events, today, lookahead, meta_file, args, ret>>

\* requests.get or raise_for_status raises: main ends there
FetchFail ==
  /\ pc = "start"
  /\ pc' = "fetch_failed"
  /\ UNCHANGED <<html, rows, events, today, lookahead, events_file, meta_file, args, ret>>

ExtractRows ==
  /\ pc = "fetched"
  /\ rows' = extract_rows(html)
  /\ pc' = "extracted"
  /\ UNCHANGED <<html, events, today, lookahead, events_file, meta_file, args, ret>>

\* events = build_events(rows), or the exception ends main
BuildOutcome(r) ==
  IF r.exc # ""
  THEN pc' = "build_raised" /\ events' = events
  ELSE pc' = "built" /\ events' = r.val

\* build_events(rows): it returns the events, or an exception leaves it and main
BuildEvents ==
  /\ pc = "extracted"
  /\ BuildOutcome(build_events(rows, today, lookahead))
  /\ UNCHANGED <<html, rows, today, lookahead, events_file, meta_file, args, ret>>

\* json.dump(events) into events.json
WriteEvents ==
  /\ pc = "built"
  /\ events_file' = Written(events)
  /\ pc' = "events_written"
  /\ UNCHANGED <<html, rows, events, today, lookahead, meta_file, args, ret>>

\* json.dump(meta) into meta.json
WriteMeta ==
  /\ pc = "events_written"
  /\ meta_file' = Written([rows_parsed |-> Len(rows), events_generated |-> Len(events),
                           source |-> SEARCH_URL, phase_lookahead_days |-> lookahead])
  /\ pc' = "done"
  /\ UNCHANGED <<html, rows, events, today, lookahead, events_file, args, ret>>

Next == FetchOk \/ FetchFail \/ ExtractRows \/ BuildEvents \/ WriteEvents \/ WriteMeta

Spec == Init /\ [][Next]_vars

----------------------------------------------------------------------------
(* build_events on any list of rows, any day, any lookahead                *)

InitBuild ==
  /\ pc = "extracted"
  /\ html = None
  /\ rows \in RowLists
  /\ events = <<>>
  /\ today \in Todays
  /\ lookahead \in Lookaheads
  /\ events_file = Absent
  /\ meta_file = Absent
  /\ args = <<>>
  /\ ret = <<>>

NextBuild == BuildEvents

SpecBuild == InitBuild /\ [][NextBuild]_vars

----------------------------------------------------------------------------
(* daterange_weekly on any two days of a window and any weekday index      *)

InitWeekly ==
  /\ pc = "call"
  /\ html = None
  /\ rows = <<>>
  /\ events = <<>>
  /\ today = FirstToday
  /\ lookahead = PHASE_LOOKAHEAD_DEFAULT
  /\ events_file = Absent
  /\ meta_file = Absent
  /\ args \in [start : FirstDay..(FirstDay + DaySpan), end : FirstDay..(FirstDay + DaySpan),
               weekday_idx : 0..6]
  /\ ret = <<>>

CallDaterangeWeekly ==
  /\ pc = "call"
  /\ ret' = daterange_weekly(args.start, args.end, args.weekday_idx)
  /\ pc' = "returned"
  /\ UNCHANGED <<html, rows, events, today, lookahead, events_file, meta_file, args>>

NextWeekly == CallDaterangeWeekly

SpecWeekly == InitWeekly /\ [][NextWeekly]_vars

----------------------------------------------------------------------------
(* Reading the output back: what the properties are stated in              *)

\* the text is YYYY-MM-DD
IsDateText(s) ==
  /\ Len(s) = 10
  /\ \A i \in {1, 2, 3, 4, 6, 7, 9, 10} : IsDigit(s[i])
  /\ s[5] = "-" /\ s[8] = "-"

\* the text is YYYY-MM-DDTHH:MM:SS
IsDateTimeText(s) ==
  /\ Len(s) = 19
  /\ IsDateText(SubSeq(s, 1, 10))
  /\ s[11] = "T" /\ s[14] = ":" /\ s[17] = ":"
  /\ \A i \in {12, 13, 15, 16, 18, 19} : IsDigit(s[i])

\* the calendar day an event starts on, read from its start text
EventDay(e) ==
  ymd2ord(ToInt(SubSeq(e.start, 1, 4)), ToInt(SubSeq(e.start, 6, 7)), ToInt(SubSeq(e.start, 9, 10)))

\* the event carries the fields of row r
Belongs(e, r) ==
  /\ e.title = r.title
  /\ e.url = r.href
  /\ e.extendedProps.dow = r.dow
  /\ e.extendedProps.time = r.time_str
  /\ e.extendedProps.dateinfo = r.dateinfo
  /\ e.extendedProps.location = r.location
  /\ e.extendedProps.notes = r.rest

\* how often row r stands in the row list
Mult(r) == Cardinality({j \in DOMAIN rows : rows[j] = r})

\* the events of the output that carry the fields of row r
EventsOf(r) == {k \in DOMAIN events : Belongs(events[k], r)}

\* the events of row r that start on day d
EventsOn(r, d) == {k \in EventsOf(r) : EventDay(events[k]) = d}

\* the weekday code is one of the seven
KnownDow(r) == r.dow \in LINE_DOWS

\* the time text is a clock range with hours 0..23 and minutes 0..59
ClockRange(r) ==
  LET tr == parse_time_range(r.time_str)
  IN tr.exc = "" /\ ~tr.val.all_day /\ tr.val.start_t # None /\ tr.val.end_t # None

\* the time text is the all-day marker
AllDayMarker(r) ==
  LET tr == parse_time_range(r.time_str) IN tr.exc = "" /\ tr.val.all_day

\* the list without its i-th element
Remove(q, i) == SubSeq(q, 1, i - 1) \o SubSeq(q, i + 1, Len(q))

\* build_events has ended, one way or the other
Ended == pc \in {"built", "build_raised"}

----------------------------------------------------------------------------
(* C1: every event of the list build_events returns is either all-day with *)
(* a date-only start and no end, or timed with start and end date-times on *)
(* the same calendar day and the end strictly later than the start.        *)

EventShape(e) ==
  \/ /\ e.allDay = TRUE
     /\ IsDateText(e.start)
     /\ "end" \notin DOMAIN e
  \/ /\ e.allDay = FALSE
     /\ "end" \in DOMAIN e
     /\ IsDateTimeText(e.start)
     /\ IsDateTimeText(e.end)
     /\ SubSeq(e.start, 1, 10) = SubSeq(e.end, 1, 10)
     /\ StrLess(e.start, e.end)

C1_EventShape == pc = "built" => \A k \in DOMAIN events : EventShape(events[k])

----------------------------------------------------------------------------
(* C2: for the rows of any page, build_events returns: no time text or     *)
(* date text of a row ends the run, only a failed fetch does.              *)

C2_RowsNeverAbort == pc # "build_raised"

----------------------------------------------------------------------------
(* C3: daterange_weekly(start, end, w) returns exactly the days d with     *)
(* start <= d <= end and weekday(d) = w, each once, ascending, consecutive *)
(* ones 7 days apart; the endpoints are included when they fall on w, and  *)
(* the result is empty when there is no such day.                          *)

C3_WeeklyExact ==
  pc = "returned" =>
    LET S == {d \in args.start..args.end : weekday(d) = args.weekday_idx}
    IN /\ {ret[i] : i \in DOMAIN ret} = S
       /\ Len(ret) = Cardinality(S)
       /\ \A i \in 1..(Len(ret) - 1) : ret[i + 1] = ret[i] + 7

\* a call whose result has both endpoints in it, and one more day between them
C3_Witness ==
  /\ pc = "returned"
  /\ Len(ret) = 3
  /\ ret[1] = args.start
  /\ ret[3] = args.end

----------------------------------------------------------------------------
(* C4: a row with a recognized time and a Phase date text gives exactly    *)
(* one event on each day d with today <= d <= today + lookahead that falls *)
(* on the row's weekday, and no other event; evaluated on a Monday with    *)
(* lookahead 28, a Monday row gives the days today + 0, 7, 14, 21, 28.     *)

\* the date text is of the Phase form
PhaseText(r) == PHASE_RE(normalize_space(r.dateinfo))

PhaseRow(r) == KnownDow(r) /\ (ClockRange(r) \/ AllDayMarker(r)) /\ PhaseText(r)

\* the days of the lookahead window that fall on the weekday of row r
WindowDays(r) == {d \in today..(today + lookahead) : weekday(d) = DowGet(r.dow)[1]}

C4_PhaseWindow ==
  pc = "built" =>
    \A i \in DOMAIN rows :
      PhaseRow(rows[i]) =>
        /\ \A d \in WindowDays(rows[i]) : Cardinality(EventsOn(rows[i], d)) = Mult(rows[i])
        /\ \A k \in EventsOf(rows[i]) : EventDay(events[k]) \in WindowDays(rows[i])
        /\ (weekday(today) = 0 /\ lookahead = 28 /\ rows[i].dow = <<"M", "o">>) =>
             {EventDay(events[k]) : k \in EventsOf(rows[i])} =
               {today, today + 7, today + 14, today + 21, today + 28}

\* a Monday row evaluated on a Monday: it has an event on the day of the horizon
C4_Witness ==
  /\ pc = "built"
  /\ weekday(today) = 0
  /\ lookahead = 28
  /\ \E i \in DOMAIN rows :
       /\ PhaseRow(rows[i])
       /\ rows[i].dow = <<"M", "o">>
       /\ EventsOn(rows[i], today + 28) # {}
       /\ Cardinality(EventsOf(rows[i])) = 5

----------------------------------------------------------------------------
(* C5: a row with a recognized weekday and time whose date text matches    *)
(* neither DD.MM.YYYY nor DD.MM.-DD.MM.YYYY does not make build_events     *)
(* raise, and the output is the one of the same list with "Phase 1" as     *)
(* that row's date text, but for the date text the events carry along;     *)
(* with the default lookahead of 28 days the row gives at least one event. *)

\* neither the Single nor the Range grammar matches the date text
NoDateGrammar(r) ==
  LET di == normalize_space(r.dateinfo) IN DATE_SINGLE_RE(di) = None /\ DATE_RANGE_RE(di) = None

FallbackRow(r) == KnownDow(r) /\ (ClockRange(r) \/ AllDayMarker(r)) /\ NoDateGrammar(r)

\* the events are those of b, but for the date text they carry along
SameButDateText(evs, b) ==
  /\ Len(evs) = Len(b)
  /\ \A k \in DOMAIN evs :
       evs[k] = [b[k] EXCEPT !.extendedProps.dateinfo = evs[k].extendedProps.dateinfo]

C5_FallbackToPhase ==
  Ended =>
    \A i \in DOMAIN rows :
      FallbackRow(rows[i]) =>
        LET b == build_events([rows EXCEPT ![i].dateinfo = DATE_PHASE], today, lookahead)
        IN /\ RowEvents(rows[i], today, lookahead).exc = ""
           /\ (pc = "build_raised") = (b.exc # "")
           /\ pc = "built" => SameButDateText(events, b.val)
           /\ (pc = "built" /\ lookahead = PHASE_LOOKAHEAD_DEFAULT) => EventsOf(rows[i]) # {}

\* a row whose date text is of no known form, with events in the output
C5_Witness ==
  /\ pc = "built"
  /\ \E i \in DOMAIN rows :
       /\ FallbackRow(rows[i])
       /\ ~PhaseText(rows[i])
       /\ Cardinality(EventsOf(rows[i])) >= 4

----------------------------------------------------------------------------
(* C6: build_events returns the same sequence for every permutation of the *)
(* same rows.                                                              *)

\* the row list in the order the permutation f of its positions gives
Permuted(f) == [i \in DOMAIN rows |-> rows[f[i]]]

C6_OrderIndependent ==
  pc = "built" =>
    \A f \in Permutations(DOMAIN rows) :
      build_events(Permuted(f), today, lookahead).val = events

----------------------------------------------------------------------------
(* C7: extract_rows returns each distinct tuple (title, weekday, time      *)
(* text, date text, location, remainder, href) of the accepted lines once, *)
(* in the order of first appearance, with whitespace-normalised text       *)
(* fields; accepted lines that differ only in whitespace and carry the     *)
(* same href give one row, and no two rows are equal in all seven fields.  *)

\* extract_rows has returned the rows of the page
Extracted == pc = "extracted"

\* the rows of the anchors of the page, anchor by anchor: none or one each
RECURSIVE RowsOf(_)
RowsOf(h) == IF h = <<>> THEN <<>> ELSE <<AnchorRows(Head(h))>> \o RowsOf(Tail(h))

PageRows == RowsOf(html)

\* no tab, no blank at either end, no two blanks in a row
Normalised(s) ==
  /\ \A i \in DOMAIN s : s[i] # "\t"
  /\ s # <<>> => s[1] # " " /\ s[Len(s)] # " "
  /\ \A i \in 1..(Len(s) - 1) : ~(s[i] = " " /\ s[i + 1] = " ")

\* the words of a text: its maximal runs of characters that are not whitespace
RECURSIVE Words(_, _)
Words(s, w) ==
  IF s = <<>> THEN (IF w = <<>> THEN <<>> ELSE <<w>>)
  ELSE IF IsSpace(Head(s)) THEN (IF w = <<>> THEN <<>> ELSE <<w>>) \o Words(Tail(s), <<>>)
  ELSE Words(Tail(s), Append(w, Head(s)))

\* two anchors whose lines differ in whitespace alone, with the same href
SameButSpace(a, b) ==
  /\ a.parent # None /\ b.parent # None
  /\ Words(a.parent[1], <<>>) = Words(b.parent[1], <<>>)
  /\ a.href = b.href

C7_DistinctRows ==
  Extracted =>
    LET ar == PageRows
        first == [i \in DOMAIN rows |-> Min({k \in DOMAIN html : ar[k] = <<rows[i]>>})]
    IN /\ \A i, j \in DOMAIN rows : i # j => rows[i] # rows[j]
       /\ \A k \in DOMAIN html : ar[k] # <<>> => \E i \in DOMAIN rows : <<rows[i]>> = ar[k]
       /\ \A i \in DOMAIN rows : \E k \in DOMAIN html : <<rows[i]>> = ar[k]
       /\ \A i, j \in DOMAIN rows : i < j => first[i] < first[j]
       /\ \A i \in DOMAIN rows :
            \A f \in {"title", "dow", "time_str", "dateinfo", "location", "rest"} :
              Normalised(rows[i][f])
       /\ \A k, l \in DOMAIN html :
            (ar[k] # <<>> /\ ar[l] # <<>> /\ SameButSpace(html[k], html[l])) => ar[k] = ar[l]

\* a page with the same listing twice, in different whitespace: one row
C7_Witness ==
  /\ Extracted
  /\ Len(html) = 2
  /\ html[1].parent # html[2].parent
  /\ AnchorRows(html[1]) # <<>>
  /\ SameButSpace(html[1], html[2])
  /\ Len(rows) = 1

----------------------------------------------------------------------------
(* C8: when the fetch fails, main ends with neither output document        *)
(* written or changed, and no step writes one before the fetch returned.   *)

C8_NoWriteWithoutFetch ==
  [][(pc = "start" \/ pc' = "fetch_failed") => UNCHANGED <<events_file, meta_file>>]_vars

\* the fetch failed, and the documents of the earlier run are still there
C8_Witness == pc = "fetch_failed" /\ events_file = Previous /\ meta_file = Previous

----------------------------------------------------------------------------
(* C9: a row with an unrecognized weekday code, or with a time text that   *)
(* is neither a clock range of hours 0..23 and minutes 0..59 nor the       *)
(* all-day marker, gives no event, and build_events returns for the list   *)
(* with the row what it returns for the list without it.                   *)

SkippedRow(r) == ~KnownDow(r) \/ ~(ClockRange(r) \/ AllDayMarker(r))

C9_SkippedRowNoEffect ==
  Ended =>
    \A i \in DOMAIN rows :
      SkippedRow(rows[i]) =>
        LET b == build_events(Remove(rows, i), today, lookahead)
        IN /\ (pc = "build_raised") = (b.exc # "")
           /\ pc = "built" => (b.val = events /\ EventsOf(rows[i]) = {})

----------------------------------------------------------------------------
(* C10: for a row with a recognized weekday and time whose date text is    *)
(* DD.MM.YYYY of a valid calendar date, parse_dateinfo returns Single with *)
(* that day, month and year, and build_events gives exactly one event for  *)
(* the row, on that date, whatever the weekday code, the evaluation day    *)
(* and the lookahead.                                                      *)

\* the text is DD.MM.YYYY and names a day of the calendar
ValidDMY(s) ==
  /\ Len(s) = 10
  /\ \A i \in {1, 2, 4, 5, 7, 8, 9, 10} : IsDigit(s[i])
  /\ s[3] = "." /\ s[6] = "."
  /\ ToInt(SubSeq(s, 7, 10)) >= 1
  /\ ToInt(SubSeq(s, 4, 5)) \in 1..12
  /\ ToInt(SubSeq(s, 1, 2)) \in 1..DaysInMonth(ToInt(SubSeq(s, 7, 10)), ToInt(SubSeq(s, 4, 5)))

SingleRow(r) == KnownDow(r) /\ (ClockRange(r) \/ AllDayMarker(r)) /\ ValidDMY(r.dateinfo)

\* the date YYYY-MM-DD of the text DD.MM.YYYY
IsoOfDMY(s) == SubSeq(s, 7, 10) \o <<"-">> \o SubSeq(s, 4, 5) \o <<"-">> \o SubSeq(s, 1, 2)

C10_SingleDate ==
  Ended =>
    \A i \in DOMAIN rows :
      SingleRow(rows[i]) =>
        LET di == parse_dateinfo(rows[i].dateinfo)
        IN /\ di.exc = ""
           /\ di.val.kind = "single"
           /\ di.val.d2 = None
           /\ di.val.d1 # None
           /\ ord2ymd(di.val.d1[1]) = <<ToInt(SubSeq(rows[i].dateinfo, 7, 10)),
                                        ToInt(SubSeq(rows[i].dateinfo, 4, 5)),
                                        ToInt(SubSeq(rows[i].dateinfo, 1, 2))>>
           /\ pc = "built" =>
                /\ Cardinality(EventsOf(rows[i])) = Mult(rows[i])
                /\ \A k \in EventsOf(rows[i]) :
                     SubSeq(events[k].start, 1, 10) = IsoOfDMY(rows[i].dateinfo)

\* a Wednesday row dated Monday 2026-01-05: its one event is on that Monday
C10_Witness ==
  /\ pc = "built"
  /\ \E i \in DOMAIN rows :
       /\ SingleRow(rows[i])
       /\ rows[i].dow = <<"M", "i">>
       /\ rows[i].dateinfo = DATE_SINGLE
       /\ \E k \in EventsOf(rows[i]) : weekday(EventDay(events[k])) = 0

====
